---- MODULE Spec2Model ----
(***************************************************************************)
(* Model of ML/python/iotstream_lr_kafka.py: the per-interval callback     *)
(* run_model, the process-wide feature vector and accumulators it mutates, *)
(* and the shutdown summary printed once the streaming context has ended.  *)
(*                                                                         *)
(* A line is modelled as the list of fields line.split(',') yields; the    *)
(* fields are strings and int()/float() are lookup tables over the tokens  *)
(* used.  Sensor values are counted in tenths (0.5 is 5).                  *)
(***************************************************************************)
EXTENDS Integers, Sequences, FiniteSets, TLC

\* ---------------------------------------------------------------- bounds
NSensors == 3
MaxLines == 3
MaxIntervals == 3

\* value features.fill() writes, in tenths
Default == 5

VARIABLES
    features,         \* numpy array of n_sensors values, indexed 0..n_sensors-1
    interval,         \* accumulator: intervals processed
    empty_intervals,  \* accumulator: intervals with rdd.count() == 0
    events,           \* accumulator: sensor events read
    pc,               \* "streaming" | "stopped" | "failed" | "done"
    out,              \* what the latest run_model call did, in program order
    summary,          \* the shutdown line, once printed
    rdd,              \* the batch handed to the latest run_model call
    before,           \* program state at entry of the latest run_model call
    delivered,        \* lines the stream has handed to run_model so far
    calls,            \* run_model calls that returned normally
    nonempty,         \* ... of which had at least one line
    wellformed,       \* 4-field lines in those
    seen              \* sensor ids that came in a 4-field line so far

vars == <<features, interval, empty_intervals, events, pc, out, summary,
          rdd, before, delivered, calls, nonempty, wellformed, seen>>

\* ------------------------------------------------------- input alphabet
\* int(s) for the tokens that appear as field 1; int() raises on any other
IntTable ==
    [s \in {"-9", "-1", "1", "2"} |->
        CASE s = "-9" -> 0 - 9
          [] s = "-1" -> 0 - 1
          [] s = "1"  -> 1
          [] s = "2"  -> 2]

\* float(s), in tenths, for the tokens that appear as field 3
FloatTable ==
    [s \in {"0.0", "0.1", "0.9"} |->
        CASE s = "0.0" -> 0
          [] s = "0.1" -> 1
          [] s = "0.9" -> 9]

\* lines as split(',') leaves them: two readings of sensor 1, one of sensor 2,
\* the end-of-stream sentinel, a negative id beyond the array, a non-integer
\* id, a three-field and a five-field line
Lines ==
    { <<"t", "1", "n", "0.9">>,
      <<"t", "1", "n", "0.1">>,
      <<"t", "2", "n", "0.1">>,
      <<"t", "-1", "n", "0.0">>,
      <<"t", "-9", "n", "0.0">>,
      <<"t", "x", "n", "0.9">>,
      <<"t", "1", "0.9">>,
      <<"t", "2", "n", "0.9", "x">> }

\* the batches of at most n lines
Batches(n) == UNION {[1..k -> Lines] : k \in 0..n}

\* ------------------------------------------------------ parsing (line 58)
\* filter(lambda list: len(list) == 4)
ExpectedLengthLoose(list) == Len(list) >= 4
ExpectedLength(list) == Len(list) = 4

\* int(list[1]) and float(list[3]) both return (0-based field indices)
Parses(list) == list[2] \in DOMAIN IntTable /\ list[4] \in DOMAIN FloatTable

\* (int(list[1]), float(list[3]))
ToTuple(list) == <<IntTable[list[2]], FloatTable[list[4]]>>

Kept(lines) == SelectSeq(lines, ExpectedLength)

\* collect() raises when a kept line does not convert
CollectRaises(lines) == \E k \in 1..Len(Kept(lines)) : ~Parses(Kept(lines)[k])

Collect(lines) == [k \in 1..Len(Kept(lines)) |-> ToTuple(Kept(lines)[k])]

\* ------------------------------------------------- the write loop (60-63)
\* numpy item assignment: indices -n..n-1 are valid, negative ones count
\* from the end; anything else raises IndexError
InBounds(idx) == 0 - NSensors <= idx /\ idx < NSensors
Position(idx) == IF idx < 0 THEN idx + NSensors ELSE idx

\* features[t[0]-1] = t[1]
SetItemOffByOne(f, t) == [f EXCEPT ![Position(t[1])] = t[2]]
SetItem(f, t) == [f EXCEPT ![Position(t[1] - 1)] = t[2]]
SetItemRaises(t) == ~InBounds(t[1] - 1)

\* if t[0] < 0: last_batch = True
FlagLatestOnly(last_batch, t) == t[1] < 0
Flag(last_batch, t) == last_batch \/ t[1] < 0

RECURSIVE ForLoop(_, _, _, _)
ForLoop(f, last_batch, input, k) ==
    IF k > Len(input)
    THEN [features |-> f, last_batch |-> last_batch, raised |-> FALSE]
    ELSE IF SetItemRaises(input[k])
         THEN [features |-> f, last_batch |-> Flag(last_batch, input[k]), raised |-> TRUE]
         ELSE ForLoop(SetItem(f, input[k]), Flag(last_batch, input[k]), input, k + 1)

\* ------------------------------------------------------ run_model (45-72)
\* one observable step of a call, with the shared state as it stood then
Did(op, f, i, e, arg, res) ==
    [op |-> op, features |-> f, interval |-> i, events |-> e, arg |-> arg, res |-> res]

\* events.add(len(input))
EventsAddedAllLines(lines, input) == Len(lines)
EventsAdded(lines, input) == Len(input)

\* lines 67-72: predict, the status line, the stop
PredictAndReportStopFirst(f, i, e, n, last_batch, predicted) ==
    (IF last_batch THEN <<Did("stop", f, i, e, 0, FALSE)>> ELSE <<>>)
    \o <<Did("predict", f, i, e, 0, predicted),
         Did(IF predicted THEN "attention" ELSE "ok", f, i, e, n, predicted)>>
PredictAndReportTotal(f, i, e, n, last_batch, predicted) ==
    <<Did("predict", f, i, e, 0, predicted),
      Did(IF predicted THEN "attention" ELSE "ok", f, i, e, e, predicted)>>
    \o (IF last_batch THEN <<Did("stop", f, i, e, 0, FALSE)>> ELSE <<>>)
PredictAndReport(f, i, e, n, last_batch, predicted) ==
    <<Did("predict", f, i, e, 0, predicted),
      Did(IF predicted THEN "attention" ELSE "ok", f, i, e, n, predicted)>>
    \o (IF last_batch THEN <<Did("stop", f, i, e, 0, FALSE)>> ELSE <<>>)

\* lines 50-52: the branch for rdd.count() == 0
NoInputCountsInterval(s) ==
    [s EXCEPT !.empty_intervals = @ + 1, !.interval = @ + 1,
              !.out = <<Did("noinput", s.features, s.interval, s.events, 0, FALSE)>>]
NoInput(s) ==
    [s EXCEPT !.empty_intervals = @ + 1,
              !.out = <<Did("noinput", s.features, s.interval, s.events, 0, FALSE)>>]

\* the program state run_model leaves, from state s, batch lines and the
\* value model.predict returns if it is called
RunModel(s, lines, predicted) ==
    IF Len(lines) = 0
    THEN NoInput(s)
    ELSE IF CollectRaises(lines)
    THEN [s EXCEPT !.pc = "failed", !.out = <<>>]
    ELSE LET input == Collect(lines)
             loop  == ForLoop(s.features, FALSE, input, 1)
             i     == s.interval + 1
             e     == s.events + EventsAdded(lines, input)
         IN  IF loop.raised
             THEN [s EXCEPT !.features = loop.features, !.pc = "failed", !.out = <<>>]
             ELSE [features        |-> loop.features,
                   interval        |-> i,
                   empty_intervals |-> s.empty_intervals,
                   events          |-> e,
                   pc              |-> IF loop.last_batch THEN "stopped" ELSE s.pc,
                   out             |-> PredictAndReport(loop.features, i, e, Len(input),
                                            loop.last_batch, predicted)]

Now == [features |-> features, interval |-> interval,
        empty_intervals |-> empty_intervals, events |-> events,
        pc |-> pc, out |-> out]

\* ------------------------------------------------------------ the program
Init ==
    /\ features = [p \in 0..(NSensors - 1) |-> Default]
    /\ interval = 0
    /\ empty_intervals = 0
    /\ events = 0
    /\ pc = "streaming"
    /\ out = <<>>
    /\ summary = <<>>
    /\ rdd = <<>>
    /\ before = [features |-> [p \in 0..(NSensors - 1) |-> Default], interval |-> 0,
                 empty_intervals |-> 0, events |-> 0, pc |-> "streaming", out |-> <<>>]
    /\ delivered = 0
    /\ calls = 0
    /\ nonempty = 0
    /\ wellformed = 0
    /\ seen = {}

\* positions of the lines of a batch that have exactly four fields
FourFields(lines) == {k \in 1..Len(lines) : Len(lines[k]) = 4}

\* the streaming engine calls run_model with the interval's batch
run_model(lines, predicted) ==
    /\ pc = "streaming"
    /\ calls < MaxIntervals
    /\ delivered' = delivered + Len(lines)
    /\ LET s == RunModel(Now, lines, predicted)
       IN  /\ features' = s.features
           /\ interval' = s.interval
           /\ empty_intervals' = s.empty_intervals
           /\ events' = s.events
           /\ pc' = s.pc
           /\ out' = s.out
           /\ calls' = IF s.pc = "failed" THEN calls ELSE calls + 1
           /\ nonempty' = IF s.pc = "failed" \/ lines = <<>> THEN nonempty ELSE nonempty + 1
           /\ wellformed' = IF s.pc = "failed" THEN wellformed
                            ELSE wellformed + Cardinality(FourFields(lines))
    /\ seen' = seen \cup {IntTable[lines[k][2]] :
                              k \in {j \in FourFields(lines) : lines[j][2] \in DOMAIN IntTable}}
    /\ rdd' = lines
    /\ before' = Now
    /\ UNCHANGED summary

\* lines 96-99: awaitTermination returns, the summary is printed
SummaryEventsRaw == events
SummaryEvents == events - 1

Shutdown ==
    /\ pc = "stopped"
    /\ pc' = "done"
    /\ summary' = <<[events |-> SummaryEvents, intervals |-> interval]>>
    /\ UNCHANGED <<features, interval, empty_intervals, events, out, rdd, before,
                   delivered, calls, nonempty, wellformed, seen>>

Next ==
    \/ \E lines \in Batches(MaxLines - delivered), predicted \in BOOLEAN : run_model(lines, predicted)
    \/ Shutdown

Spec == Init /\ [][Next]_vars

\* ================================================================ claims
\* the latest run_model call, if any: whether there was one, whether it
\* returned, and what its batch held
Called == calls > 0 \/ pc = "failed"
Returned == calls > 0 /\ pc # "failed"
Stopped == pc \in {"stopped", "done"}
Ops == [k \in 1..Len(out) |-> out[k].op]

Converts(line) == line[2] \in {"-9", "-1", "1", "2"} /\ line[4] \in {"0.0", "0.1", "0.9"}
Messages == {k \in FourFields(rdd) : Converts(rdd[k])}
IdOf(k) == IntTable[rdd[k][2]]
ValueOf(k) == FloatTable[rdd[k][4]]
AllConvert == \A k \in FourFields(rdd) : Converts(rdd[k])
AllWellFormed == FourFields(rdd) = 1..Len(rdd) /\ AllConvert
\* every id indexes into the array, from the front or from the back
AllInRange == \A k \in Messages : 1 - NSensors <= IdOf(k) /\ IdOf(k) <= NSensors
HasNegativeId == \E k \in Messages : IdOf(k) < 0
\* the 0-based position sensor id's value is written to, counting from the
\* end for ids below 1
Slot(id) == IF id >= 1 THEN id - 1 ELSE id - 1 + NSensors
Reporting(p) == {k \in Messages : IdOf(k) - 1 = p}
Latest(S) == CHOOSE k \in S : \A j \in S : j <= k

\* C1: after run_model has processed an interval of well-formed messages,
\* each position p holds the value of the latest message whose sensor id is
\* p + 1, and its previous value if no message has that sensor id.
C1_ExactlyReportedPositions ==
    (Returned /\ rdd # <<>> /\ AllWellFormed) =>
        \A p \in 0..(NSensors - 1) :
            features[p] = IF Reporting(p) # {} THEN ValueOf(Latest(Reporting(p)))
                          ELSE before.features[p]

\* C2: the position of a sensor that never was the sensor id of a message
\* holds the default 0.5.
C2_UnreportedKeepsDefault ==
    \A i \in 1..NSensors : i \notin seen => features[i - 1] = Default

\* C3: a call with zero messages leaves the feature vector, the interval
\* counter and the message counter as they were, adds exactly one to the
\* empty-interval counter, calls neither predict nor stop, and the stream
\* goes on.
C3_EmptyInterval ==
    (Called /\ rdd = <<>>) =>
        /\ features = before.features
        /\ empty_intervals = before.empty_intervals + 1
        /\ interval = before.interval
        /\ events = before.events
        /\ \A k \in 1..Len(out) : out[k].op \notin {"predict", "attention", "ok", "stop"}
        /\ pc = "streaming"

C3_Witness ==
    /\ calls >= 2 /\ rdd = <<>>
    /\ features[0] = 9 /\ interval = 1 /\ events >= 1 /\ empty_intervals = 1

\* C4: when a batch keeps at least one line after the lines whose field
\* count is not 4 are removed, the call leaves the feature vector and the
\* message counter that it would have left on the batch without them; the
\* message counter grows by the number of four-field lines.
Cleaned == SelectSeq(rdd, LAMBDA line : Len(line) = 4)
C4_OtherFieldCountsIgnored ==
    (Called /\ Cleaned # <<>>) =>
        LET s == RunModel(before, Cleaned, FALSE)
        IN  /\ features = s.features
            /\ events = s.events
            /\ Returned => events = before.events + Len(Cleaned)

C4_Witness ==
    /\ Returned
    /\ Len(rdd) >= 3 /\ Len(Cleaned) = 1
    /\ \E k \in 1..Len(rdd) : Len(rdd[k]) = 3
    /\ \E k \in 1..Len(rdd) : Len(rdd[k]) = 5
    /\ features # before.features

\* C5 as claimed: the stream is stopped after a call exactly when the batch
\* held a well-formed message with a negative sensor id.
C5_Original ==
    Called => (HasNegativeId <=> Stopped)

\* C5 as amended: a batch whose four-field lines all convert and whose ids all
\* index into the array, holding a negative id, ends in predict, the status
\* line and then the stop, with both counters already incremented; a batch
\* without a negative id never stops the stream.
C5_StopsAfterProcessing ==
    /\ (Called /\ HasNegativeId /\ AllConvert /\ AllInRange) =>
           /\ Stopped
           /\ Len(out) = 3
           /\ out[1].op = "predict"
           /\ out[2].op \in {"attention", "ok"}
           /\ out[3].op = "stop"
           /\ out[3].features = features
           /\ out[3].interval = before.interval + 1
           /\ out[3].events = before.events + Cardinality(FourFields(rdd))
    /\ (Called /\ ~HasNegativeId) =>
           /\ ~Stopped
           /\ \A k \in 1..Len(out) : out[k].op # "stop"

C5_Witness ==
    /\ pc = "stopped"
    /\ Len(rdd) = 3
    /\ rdd[1] = <<"t", "-1", "n", "0.0">>
    /\ rdd[2] = <<"t", "1", "n", "0.9">>
    /\ rdd[3] = <<"t", "2", "n", "0.1">>

\* C6: a batch holding only the sentinel "t,-1,n,0.0" changes no position of
\* the feature vector, and the stream is stopped after it.
C6_SentinelWritesNothing ==
    (Called /\ rdd = << <<"t", "-1", "n", "0.0">> >>) =>
        /\ features = before.features
        /\ Stopped

\* the batch of the latest call in another order, and what the call would
\* have left on it
Reordered == {[k \in 1..Len(rdd) |-> rdd[f[k]]] : f \in Permutations(1..Len(rdd))}
SameCounters(s) ==
    /\ s.interval = interval
    /\ s.empty_intervals = empty_intervals
    /\ s.events = events
SameDecision(s) == s.pc = (IF pc = "done" THEN "stopped" ELSE pc)
\* two messages of the batch write one position with different values
Conflict ==
    \E j, k \in Messages :
        /\ Slot(IdOf(j)) = Slot(IdOf(k))
        /\ ValueOf(j) # ValueOf(k)

\* C7 as claimed: on every reordering of its batch the call leaves the same
\* feature vector, the same counters and the same decision to stop.
C7_Original ==
    Called => \A lines \in Reordered :
        LET s == RunModel(before, lines, FALSE)
        IN  s.features = features /\ SameCounters(s) /\ SameDecision(s)

\* C7 as amended: on every reordering of its batch the call leaves the same
\* counters and the same decision to stop; it leaves the same feature vector
\* when every id indexes into the array and no two messages write one
\* position with different values.
C7_OrderIndependent ==
    Called => \A lines \in Reordered :
        LET s == RunModel(before, lines, FALSE)
        IN  /\ SameCounters(s)
            /\ SameDecision(s)
            /\ (AllInRange /\ ~Conflict) => s.features = features

C7_Witness ==
    /\ Returned
    /\ Len(rdd) = 3
    /\ rdd[1] = <<"t", "2", "n", "0.1">>
    /\ rdd[2] = <<"t", "1", "n", "0.9">>
    /\ rdd[3] = <<"t", "2", "n", "0.1">>
    /\ features[0] = 9 /\ features[1] = 1

\* C8 as claimed: the summary reports the value of the message counter and
\* the value of the interval counter.
C8_Original ==
    pc = "done" =>
        /\ summary[1].events = events
        /\ summary[1].intervals = interval

\* C8 as amended: the summary reports the message counter less one, which is
\* the number of four-field messages of the run's non-empty intervals less
\* one, and the value of the interval counter.
C8_SummaryCounts ==
    /\ pc = "done" =>
           /\ Len(summary) = 1
           /\ summary[1].events = events - 1
           /\ summary[1].events = wellformed - 1
           /\ summary[1].intervals = interval
           /\ summary[1].intervals = nonempty
    /\ pc # "done" => summary = <<>>

C8_Witness ==
    /\ pc = "done"
    /\ summary[1].events = 2
    /\ summary[1].intervals = 2
    /\ empty_intervals = 1

\* C9: the interval counter is the number of non-empty batches processed,
\* the empty-interval counter the number of empty ones, the message counter
\* the number of four-field lines in the non-empty ones; no counter is below
\* its value before the latest call, and a call that returned added one to
\* exactly one of the interval counter and the empty-interval counter.
C9_Counters ==
    /\ interval = nonempty
    /\ empty_intervals = calls - nonempty
    /\ events = wellformed
    /\ interval >= before.interval
    /\ empty_intervals >= before.empty_intervals
    /\ events >= before.events
    /\ Returned =>
           \/ interval = before.interval + 1 /\ empty_intervals = before.empty_intervals
           \/ interval = before.interval /\ empty_intervals = before.empty_intervals + 1

C9_Witness ==
    /\ calls = 3 /\ interval = 2 /\ empty_intervals = 1
    /\ events = 1 /\ delivered = 3

\* what a call that ran to its end on a non-empty batch shows: one predict,
\* on the vector and the counters the call leaves, then one status line for
\* the prediction with the interval counter and the batch's message count,
\* then at most the stop
OnePredictOneLine ==
    /\ Len(out) \in {2, 3}
    /\ out[1].op = "predict"
    /\ out[1].features = features
    /\ out[1].interval = before.interval + 1
    /\ out[1].events = before.events + Cardinality(FourFields(rdd))
    /\ out[2].op = (IF out[1].res THEN "attention" ELSE "ok")
    /\ out[2].interval = interval
    /\ out[2].interval = before.interval + 1
    /\ out[2].arg = Cardinality(FourFields(rdd))
    /\ Len(out) = 3 => out[3].op = "stop"

\* C10 as claimed: every call on a non-empty batch shows that.
C10_Original ==
    (Called /\ rdd # <<>>) => OnePredictOneLine

\* C10 as amended: every call on a non-empty batch whose four-field lines all
\* convert and whose ids all index into the array shows that.
C10_PredictThenReport ==
    (Called /\ rdd # <<>> /\ AllConvert /\ AllInRange) => OnePredictOneLine

C10_Witness ==
    /\ Len(out) = 3
    /\ out[2].op = "attention"
    /\ out[2].arg = 2
    /\ out[2].interval = 2
    /\ features # before.features

====
